---------------------------- MODULE Spec2Model ----------------------------
(***************************************************************************)
(* DataTable (src/DataTable/DataTable.py): a pandas data frame driven by   *)
(* dictionary queries.  The model keeps one DataTable object (its data     *)
(* frame and its private attributes __path and __sep), the one file the    *)
(* program saves to, and a record of the last call: its arguments, the     *)
(* frame before it, what it returned and the exception it raised.          *)
(*                                                                         *)
(* A data frame is [columns |-> sequence of distinct names, rows |->       *)
(* sequence of functions from the column names to cells]; a cell is an     *)
(* integer of Vals or NaN.  Python dicts whose iteration order the code    *)
(* depends on are sequences of <<key, value>> pairs with distinct keys.    *)
(***************************************************************************)
EXTENDS Integers, Sequences, FiniteSets, TLC

(* ------------------------------ bounds -------------------------------- *)
MaxRows == 2        \* rows of a table (appends beyond it are not taken)
MaxVal == 2         \* cells are 1..MaxVal or NaN
MaxRecs == 2        \* records of one append

(* numpy.nan: the marker of a missing cell *)
NaN == -1

Names == {"a", "b"}
Vals == 1..MaxVal
Cells == Vals \cup {NaN}
Paths == {"t.csv"}
Seps == {";", ","}
DefaultSep == ";"
keywords == {"columns", "state", "values"}
QueryKeys == keywords \cup {"foo"}
SaveArgs == {"True", "False", "NotBool"}

(* ------------------------------ helpers ------------------------------- *)
Range(s) == {s[i] : i \in DOMAIN s}

IsInjective(s) == \A i, j \in DOMAIN s : s[i] = s[j] => i = j

SeqsUpTo(S, n) == UNION {[1..k -> S] : k \in 0..n}

DistinctSeqs(S, n) == {s \in SeqsUpTo(S, n) : IsInjective(s)}

RECURSIVE SelectRows(_, _)
SelectRows(rows, mask) ==
    IF rows = <<>> THEN <<>>
    ELSE (IF mask[1] THEN <<Head(rows)>> ELSE <<>>)
         \o SelectRows(Tail(rows), Tail(mask))

(* keys of an ordered dict, in iteration order *)
DictKeys(d) == [i \in DOMAIN d |-> d[i][1]]

(* d[k] of an ordered dict *)
DictGet(d, k) == d[CHOOSE i \in DOMAIN d : d[i][1] = k][2]

RECURSIVE AppendNew(_, _)
(* s followed by the entries of t that are neither in s nor earlier in t *)
AppendNew(s, t) ==
    IF t = <<>> THEN s
    ELSE AppendNew(IF Head(t) \in Range(s) THEN s ELSE Append(s, Head(t)), Tail(t))

EmptyFrame == [columns |-> <<>>, rows |-> <<>>]

(* the frames over the columns cols with at most n rows (none without columns) *)
Frames(cols, n) ==
    {[columns |-> cols, rows |-> r] :
        r \in SeqsUpTo([Range(cols) -> Cells], IF cols = <<>> THEN 0 ELSE n)}

(* ------------------------------ utils.py ------------------------------ *)
(* the elements of list1 that are in list2 (the callers only take set() of it) *)
extract_match(list1, list2) == {element \in list1 : element \in list2}

are_contained(set1, set2) ==
    LET ls1 == extract_match(set1, set2)
        ls2 == extract_match(set2, set1)
    IN  ls1 = ls2

(* --------------------------- the data frame --------------------------- *)
(* elementwise ==: nan equals nothing, itself included *)
Eq(cell, v) == cell # NaN /\ v # NaN /\ cell = v

(* frame[keys] raises KeyError unless every key is a column *)
HasColumns(frame, keys) == keys \subseteq Range(frame.columns)

(* (frame[state] == Series(state)).all(axis=1) *)
MatchMask(frame, state) ==
    [i \in DOMAIN frame.rows |->
        \A c \in DOMAIN state : Eq(frame.rows[i][c], state[c])]

(* (frame[state] != Series(state)).all(axis=1) *)
DeleteMask(frame, state) ==
    [i \in DOMAIN frame.rows |->
        \A c \in DOMAIN state : ~Eq(frame.rows[i][c], state[c])]

(* frame[mask] and frame.loc[mask] *)
Masked(frame, mask) == [frame EXCEPT !.rows = SelectRows(frame.rows, mask)]

filter(frame, state) == Masked(frame, MatchMask(frame, state))

(* frame[columns], columns a list of column names *)
Project(frame, columns) ==
    [columns |-> columns,
     rows |-> [i \in DOMAIN frame.rows |->
                  [c \in Range(columns) |-> frame.rows[i][c]]]]

(* frame.loc[mask, kw] = value.  An existing column is overwritten on the  *)
(* masked rows.  A missing column is added (setting with enlargement):     *)
(* filled with nan, then set on the masked rows; a frame without rows      *)
(* refuses a scalar with ValueError.                                       *)
SetCells(frame, mask, kw, value) ==
    IF kw \in Range(frame.columns)
    THEN [err |-> "none",
          frame |-> [frame EXCEPT !.rows =
                        [i \in DOMAIN frame.rows |->
                            IF mask[i] THEN [frame.rows[i] EXCEPT ![kw] = value]
                            ELSE frame.rows[i]]]]
    ELSE IF frame.rows = <<>>
    THEN [err |-> "ValueError", frame |-> frame]
    ELSE [err |-> "none",
          frame |-> [columns |-> Append(frame.columns, kw),
                     rows |-> [i \in DOMAIN frame.rows |->
                                 [c \in Range(frame.columns) \cup {kw} |->
                                     IF c # kw THEN frame.rows[i][c]
                                     ELSE IF mask[i] THEN value ELSE NaN]]]]

(* Series.max(): the largest cell that is not nan; nan when there is none *)
ColumnMax(frame, col) ==
    LET present == {frame.rows[i][col] : i \in DOMAIN frame.rows} \ {NaN}
    IN  IF present = {} THEN NaN
        ELSE CHOOSE m \in present : \A x \in present : x <= m

(* pd.DataFrame(records): the columns are the record keys in order of first *)
(* appearance, a key a record lacks is nan                                 *)
RECURSIVE RecordColumns(_)
RecordColumns(records) ==
    IF records = <<>> THEN <<>>
    ELSE AppendNew(DictKeys(Head(records)),
                   RecordColumns(Tail(records)))

RecordCell(rec, c) == IF c \in Range(DictKeys(rec)) THEN DictGet(rec, c) ELSE NaN

FrameOf(records) ==
    LET cols == RecordColumns(records)
    IN  [columns |-> cols,
         rows |-> [i \in DOMAIN records |->
                      [c \in Range(cols) |-> RecordCell(records[i], c)]]]

(* AppendFrames with the columns of other put first *)
AppendFrames_OtherFirst(frame, other) ==
    LET cols == AppendNew(other.columns, frame.columns)
        Widen(f) == [i \in DOMAIN f.rows |->
                        [c \in Range(cols) |->
                            IF c \in Range(f.columns) THEN f.rows[i][c] ELSE NaN]]
    IN  [columns |-> cols, rows |-> Widen(frame) \o Widen(other)]

(* frame.append(other, ignore_index=True): the rows of both, over the      *)
(* columns of frame followed by the columns only other has                 *)
AppendFrames(frame, other) ==
    LET cols == AppendNew(frame.columns, other.columns)
        Widen(f) == [i \in DOMAIN f.rows |->
                        [c \in Range(cols) |->
                            IF c \in Range(f.columns) THEN f.rows[i][c] ELSE NaN]]
    IN  [columns |-> cols, rows |-> Widen(frame) \o Widen(other)]

(* ------------------------- text of a csv file ------------------------- *)
Digits == <<"0", "1", "2", "3", "4", "5", "6", "7", "8", "9">>

(* a cell as to_csv writes it: nan is the empty field *)
FieldText(cell) == IF cell = NaN THEN "" ELSE Digits[cell + 1]

(* a field as read_csv parses it: the empty field is nan *)
ParseField(text) ==
    IF text = "" THEN NaN ELSE (CHOOSE d \in DOMAIN Digits : Digits[d] = text) - 1

NoFile == [exists |-> FALSE, sep |-> "", header |-> <<>>, lines |-> <<>>]

(* frame.to_csv(path, sep=sep, index=False): the header, then a line a row *)
ToCsv(frame, s) ==
    [exists |-> TRUE, sep |-> s, header |-> frame.columns,
     lines |-> [i \in DOMAIN frame.rows |->
                  [j \in DOMAIN frame.columns |->
                      FieldText(frame.rows[i][frame.columns[j]])]]]

(* pd.read_csv(path, sep=sep) of a file written with the same separator *)
ReadCsv(content) ==
    [columns |-> content.header,
     rows |-> [i \in DOMAIN content.lines |->
                  [c \in Range(content.header) |->
                      ParseField(content.lines[i]
                          [CHOOSE j \in DOMAIN content.header :
                              content.header[j] = c])]]]

(* ------------------------------- queries ------------------------------ *)
NoState == [c \in {} |-> NaN]

Query(keys, columns, state, values, records) ==
    [isdict |-> TRUE, keys |-> keys, columns |-> columns, state |-> state,
     values |-> values, records |-> records]

(* a query argument that is no dict (None, a list, ...) *)
NotADict == [isdict |-> FALSE, keys |-> {}, columns |-> <<>>, state |-> NoState,
             values |-> <<>>, records |-> <<>>]

NoQuery == Query({}, <<>>, NoState, <<>>, <<>>)

(* the column names query[kw] names (line 222) *)
NamedColumns(q, kw) ==
    IF kw = "columns" THEN Range(q.columns)
    ELSE IF kw = "state" THEN DOMAIN q.state
    ELSE Range(DictKeys(q.values))

(* __query_validation: the exception it raises, "none" when it returns *)
query_validation(q, must_have, frame) ==
    IF ~q.isdict THEN "TypeError"
    ELSE IF ~are_contained(q.keys, keywords) THEN "ValueError"
    ELSE IF extract_match(q.keys, must_have) # must_have THEN "AssertionError"
    ELSE IF \E kw \in extract_match(q.keys, keywords) :
                ~are_contained(NamedColumns(q, kw), Range(frame.columns))
         THEN "ValueError"
    ELSE "none"

(* get and max add an empty state to a query that has none (lines 105, 185) *)
WithState(q) == IF "state" \in q.keys THEN q ELSE [q EXCEPT !.keys = @ \cup {"state"}]

(* ------------------------------ the state ----------------------------- *)
VARIABLES
    alive,  \* a DataTable object exists (its constructor returned)
    df,     \* self._df
    path,   \* self.__path: "Unset" (no such attribute), "None" or a path
    sep,    \* self.__sep: "Unset" or a separator
    files,  \* the file system: what each path of Paths holds
    last    \* the call the caller is looking at: its arguments, the frame
            \* before it, its result and its exception; NoCall between calls

vars == <<alive, df, path, sep, files, last>>

Call(op, q, save, p, s, pre, err, table, maxes) ==
    [op |-> op, q |-> q, save |-> save, path |-> p, sep |-> s, pre |-> pre,
     err |-> err, table |-> table, maxes |-> maxes]

NoMaxes == [c \in {} |-> 0]

NoCall == Call("none", NoQuery, "None", "None", "None", EmptyFrame, "none",
               EmptyFrame, NoMaxes)

Idle == last.op = "none"

(* ----------------------------- constructor ---------------------------- *)
(* __init__(table: dict, sep): lines 32-34, 37 *)
NewFromDict(table, s) == [df |-> table, path |-> "None", sep |-> s]

(* __init__(None, sep): lines 35-37; __path is never assigned *)
NewEmpty(s) == [df |-> EmptyFrame, path |-> "Unset", sep |-> s]

(* __load: reads self.__path with self.__sep *)
load(obj, fs) ==
    IF obj.sep = "Unset" THEN [err |-> "AttributeError", obj |-> obj]
    ELSE [err |-> "none", obj |-> [obj EXCEPT !.df = ReadCsv(fs[obj.path])]]

(* __init__(path: str, sep): lines 28-31, 37.  The attributes are assigned  *)
(* in the order of the code: __path, then __load(), then __sep.            *)
NewFromPath(p, s, fs) ==
    LET fresh == [df |-> EmptyFrame, path |-> "Unset", sep |-> "Unset"]
    IN  IF ~fs[p].exists THEN [err |-> "AssertionError", obj |-> fresh]
        ELSE LET withPath == [fresh EXCEPT !.path = p]
                 loaded == load(withPath, fs)
             IN  IF loaded.err # "none" THEN loaded
                 ELSE [err |-> "none", obj |-> [loaded.obj EXCEPT !.sep = s]]

(* ------------------------------- methods ------------------------------ *)
(* save(path, sep): to_csv(None) returns the text and writes no file *)
SaveCall(frame, p_arg, s_arg, self_path, self_sep, fs) ==
    IF p_arg = "None" /\ self_path = "Unset" THEN [err |-> "AttributeError", files |-> fs]
    ELSE LET p == IF p_arg = "None" THEN self_path ELSE p_arg
             s == IF s_arg = "None" THEN self_sep ELSE s_arg
         IN  [err |-> "none",
              files |-> IF p = "None" THEN fs ELSE [fs EXCEPT ![p] = ToCsv(frame, s)]]

GetCall(frame, query) ==
    LET q == WithState(query)
        verr == query_validation(q, {"state"}, frame)
        none == [err |-> "none", table |-> EmptyFrame]
    IN  IF verr # "none" THEN [none EXCEPT !.err = verr]
        ELSE IF ~HasColumns(frame, DOMAIN q.state) THEN [none EXCEPT !.err = "KeyError"]
        ELSE IF "columns" \notin q.keys THEN [none EXCEPT !.table = filter(frame, q.state)]
        ELSE IF ~HasColumns(frame, Range(q.columns)) THEN [none EXCEPT !.err = "KeyError"]
        ELSE [none EXCEPT !.table = Project(filter(frame, q.state), q.columns)]

DeleteCall(frame, query, save) ==
    LET verr == query_validation(query, {"state"}, frame)
    IN  IF save = "NotBool" THEN [err |-> "TypeError", frame |-> frame]
        ELSE IF verr # "none" THEN [err |-> verr, frame |-> frame]
        ELSE IF ~HasColumns(frame, DOMAIN query.state)
        THEN [err |-> "KeyError", frame |-> frame]
        ELSE [err |-> "none", frame |-> Masked(frame, DeleteMask(frame, query.state))]

RECURSIVE EditLoop(_, _, _)
(* for kw in query['values']: the mask is taken from the frame as it is then *)
EditLoop(frame, state, values) ==
    IF values = <<>> THEN [err |-> "none", frame |-> frame]
    ELSE IF ~HasColumns(frame, DOMAIN state) THEN [err |-> "KeyError", frame |-> frame]
    ELSE LET set == SetCells(frame, MatchMask(frame, state),
                             Head(values)[1], Head(values)[2])
         IN  IF set.err # "none" THEN set
             ELSE EditLoop(set.frame, state, Tail(values))

EditCall(frame, query, save) ==
    LET verr == query_validation(query, {"state", "values"}, frame)
    IN  IF save = "NotBool" THEN [err |-> "TypeError", frame |-> frame]
        ELSE IF verr # "none" THEN [err |-> verr, frame |-> frame]
        ELSE EditLoop(frame, query.state, query.values)

AppendCall(frame, query, save) ==
    IF save = "NotBool" \/ ~query.isdict THEN [err |-> "TypeError", frame |-> frame]
    ELSE IF "values" \notin query.keys THEN [err |-> "KeyError", frame |-> frame]
    ELSE [err |-> "none", frame |-> AppendFrames(frame, FrameOf(query.records))]

(* max.  `value is not nan` (line 196) tests the identity of the object that *)
(* Series.max() returned.  The nan of a column without rows is numpy.nan  *)
(* itself.  The nan of a column whose rows are all missing is numpy.nan or *)
(* a new float, by the pandas build (a numpy.float64 as of pandas 1.3, a   *)
(* float under bottleneck): `same` tells which.                            *)
MaxCall(frame, query, same) ==
    LET q == WithState(query)
        verr == query_validation(q, {"columns"}, frame)
        none == [err |-> "none", maxes |-> NoMaxes]
    IN  IF verr # "none" THEN [none EXCEPT !.err = verr]
        ELSE IF ~HasColumns(frame, DOMAIN q.state) \/ ~HasColumns(frame, Range(q.columns))
        THEN [none EXCEPT !.err = "KeyError"]
        ELSE LET table == Project(filter(frame, q.state), q.columns)
                 IsNanObject(value) == value = NaN /\ (table.rows = <<>> \/ same)
             IN  [none EXCEPT !.maxes =
                     [col \in Range(table.columns) |->
                         LET value == ColumnMax(table, col)
                         IN  IF ~IsNanObject(value) THEN value ELSE 0]]

(* ------------------------------- inputs ------------------------------- *)
OrderedDicts(V) ==
    {d \in SeqsUpTo(Names \X V, Cardinality(Names)) : IsInjective(DictKeys(d))}

(* state predicates: a required value for each column of a set of names *)
StateDicts == UNION {[D -> Cells] : D \in SUBSET Names}

ValueDicts == OrderedDicts(Vals)

ColumnLists == DistinctSeqs(Names, Cardinality(Names))

(* the records of an append: each a non-empty dict holding one value *)
Records == UNION {OrderedDicts({v}) : v \in Vals} \ {<<>>}

(* the lists of at most MaxRecs records that fit in room more rows *)
RecordLists(room) == SeqsUpTo(Records, IF room < MaxRecs THEN room ELSE MaxRecs)

(* the queries with their keys among `allowed`, a field being empty when   *)
(* its key is absent, and one argument that is no dict                     *)
Queries(allowed, columnLists, states, dicts, recordLists) ==
    {NotADict} \cup
    UNION {{Query(k, c, st, v, r) :
               c \in IF "columns" \in k THEN columnLists ELSE {<<>>},
               st \in IF "state" \in k THEN states ELSE {NoState},
               v \in IF "values" \in k THEN dicts ELSE {<<>>},
               r \in IF "values" \in k THEN recordLists ELSE {<<>>}} :
           k \in SUBSET allowed}

GetQueries == Queries({"columns", "state", "foo"}, ColumnLists, StateDicts, {<<>>}, {<<>>})

DeleteQueries == Queries({"state", "foo"}, {<<>>}, StateDicts, {<<>>}, {<<>>})

EditQueries == Queries({"state", "values", "foo"}, {<<>>}, StateDicts, ValueDicts, {<<>>})

AppendQueries(room) ==
    Queries({"values", "foo"}, {<<>>}, {NoState}, {<<>>}, RecordLists(room))

MaxQueries == GetQueries

(* ------------------------------- actions ------------------------------ *)
Init ==
    /\ alive = TRUE
    /\ \E obj \in {NewEmpty(DefaultSep)} \cup
                  {NewFromDict(t, DefaultSep) :
                      t \in UNION {Frames(cols, MaxRows) : cols \in ColumnLists}} :
          /\ df = obj.df
          /\ path = obj.path
          /\ sep = obj.sep
    /\ files = [p \in Paths |-> NoFile]
    /\ last = NoCall

get(query) ==
    /\ alive /\ Idle
    /\ LET r == GetCall(df, query)
       IN  last' = Call("get", query, "None", "None", "None", df, r.err, r.table, NoMaxes)
    /\ UNCHANGED <<alive, df, path, sep, files>>

max(query, same) ==
    /\ alive /\ Idle
    /\ LET r == MaxCall(df, query, same)
       IN  last' = Call("max", query, "None", "None", "None", df, r.err, EmptyFrame, r.maxes)
    /\ UNCHANGED <<alive, df, path, sep, files>>

(* the end of delete, edit and append: the frame is assigned, then          *)
(* `if save: self.save()`                                                  *)
Finish(op, query, save_arg, r) ==
    LET saved == IF r.err = "none" /\ save_arg = "True"
                 THEN SaveCall(r.frame, "None", "None", path, sep, files)
                 ELSE [err |-> r.err, files |-> files]
    IN  /\ df' = r.frame
        /\ files' = saved.files
        /\ last' = Call(op, query, save_arg, "None", "None", df, saved.err,
                        EmptyFrame, NoMaxes)
        /\ UNCHANGED <<alive, path, sep>>

delete(query, save_arg) ==
    /\ alive /\ Idle
    /\ Finish("delete", query, save_arg, DeleteCall(df, query, save_arg))

edit(query, save_arg) ==
    /\ alive /\ Idle
    /\ Finish("edit", query, save_arg, EditCall(df, query, save_arg))

append(query, save_arg) ==
    /\ alive /\ Idle
    /\ Len(df.rows) + Len(query.records) <= MaxRows
    /\ Finish("append", query, save_arg, AppendCall(df, query, save_arg))

save(p_arg, s_arg) ==
    /\ alive /\ Idle
    /\ LET r == SaveCall(df, p_arg, s_arg, path, sep, files)
       IN  /\ files' = r.files
           /\ last' = Call("save", NoQuery, "None", p_arg, s_arg, df, r.err,
                           EmptyFrame, NoMaxes)
    /\ UNCHANGED <<alive, df, path, sep>>

(* DataTable(p, s): a new object takes the place of the old one; when the   *)
(* constructor raises there is no object                                   *)
InitFromPath(p, s) ==
    /\ Idle
    /\ LET r == NewFromPath(p, s, files)
       IN  /\ alive' = (r.err = "none")
           /\ df' = r.obj.df
           /\ path' = r.obj.path
           /\ sep' = r.obj.sep
           /\ last' = Call("init", NoQuery, "None", p, s, df, r.err, EmptyFrame, NoMaxes)
    /\ UNCHANGED files

(* the caller is done with the result of the call *)
Discard ==
    /\ ~Idle
    /\ last' = NoCall
    /\ UNCHANGED <<alive, df, path, sep, files>>

Next ==
    \/ Idle /\ \E q \in GetQueries : get(q)
    \/ Idle /\ \E q \in MaxQueries, same \in BOOLEAN : max(q, same)
    \/ Idle /\ \E q \in DeleteQueries, s \in SaveArgs : delete(q, s)
    \/ Idle /\ \E q \in EditQueries, s \in SaveArgs : edit(q, s)
    \/ Idle /\ \E q \in AppendQueries(MaxRows - Len(df.rows)), s \in SaveArgs : append(q, s)
    \/ Idle /\ \E s \in Seps \cup {"None"} : save("None", s)
    \/ Discard

Spec == Init /\ [][Next]_vars

(* saving to a path and constructing tables from it *)
NextIO ==
    \/ Idle /\ \E p \in Paths \cup {"None"}, s \in Seps \cup {"None"} : save(p, s)
    \/ Idle /\ \E p \in Paths, s \in Seps : InitFromPath(p, s)
    \/ Discard

SpecIO == Init /\ [][NextIO]_vars

(* append alone, from every table of Init *)
NextAppend ==
    \/ Idle /\ \E q \in AppendQueries(MaxRows - Len(df.rows)), s \in SaveArgs : append(q, s)
    \/ Discard

SpecAppend == Init /\ [][NextAppend]_vars

(* ------------------------------- claims ------------------------------- *)
Mutators == {"delete", "edit", "append"}
Validated == {"get", "delete", "edit", "max"}

(* the call passed its `save` check and its query is a dict *)
WellTyped == last.q.isdict /\ last.save # "NotBool"

(* every column the query names is a column of the table before the call *)
NamesKnownColumns ==
    \A kw \in last.q.keys \cap keywords :
        NamedColumns(last.q, kw) \subseteq Range(last.pre.columns)

(* the rows of the frame at the positions where keep is true *)
RowsWhere(frame, keep) == SelectRows(frame.rows, keep)

(* C1: after delete(state=S), S naming columns of the table, the table     *)
(* holds exactly the rows of the old table on which the get-mask of S is   *)
(* false, with their values and in their order, over the same columns.     *)
C1_DeleteKeepsExactlyUnmatched ==
    (last.op = "delete" /\ last.err = "none" /\ NamesKnownColumns)
    => df = [last.pre EXCEPT !.rows =
                RowsWhere(last.pre,
                          [i \in DOMAIN last.pre.rows |->
                              ~MatchMask(last.pre, last.q.state)[i]])]

(* the row a correct edit leaves: the values of V merged into a matched row *)
Merged(row, matched, values) ==
    [c \in DOMAIN row |->
        IF matched /\ c \in Range(DictKeys(values)) THEN DictGet(values, c) ELSE row[c]]

(* C2: after edit(state=S, values=V), S and V naming columns of the table, *)
(* every row that matched S before the call holds V on the columns of V    *)
(* and its old value elsewhere, and every other row is unchanged.          *)
C2_EditMergesIntoMatched ==
    (last.op = "edit" /\ last.err = "none" /\ NamesKnownColumns)
    => df = [last.pre EXCEPT !.rows =
                [i \in DOMAIN last.pre.rows |->
                    Merged(last.pre.rows[i], MatchMask(last.pre, last.q.state)[i],
                           last.q.values)]]

(* C3: after delete(state=S), get(state=S) returns no row; S may be empty. *)
C3_DeleteThenGetIsEmpty ==
    (last.op = "delete" /\ last.err = "none" /\ NamesKnownColumns)
    => LET r == GetCall(df, Query({"state"}, <<>>, last.q.state, <<>>, <<>>))
       IN  r.err = "none" /\ r.table.rows = <<>>

(* C4: get, delete, edit and max reject a query with a key outside         *)
(* {columns, state, values} with ValueError and leave the table as it was. *)
C4_UnknownKeyRejected ==
    (last.op \in Validated /\ WellTyped /\ ~(last.q.keys \subseteq keywords))
    => (last.err = "ValueError" /\ df = last.pre)

(* C5: get, delete, edit and max reject a query naming a column the table  *)
(* does not have with ValueError before the table is touched, and no edit  *)
(* call changes the column set.                                            *)
C5_UnknownColumnRejected ==
    /\ (last.op \in Validated /\ WellTyped /\ ~NamesKnownColumns)
       => (last.err = "ValueError" /\ df = last.pre)
    /\ last.op = "edit" => df.columns = last.pre.columns


(* the rows of the table before the call that its state predicate selects *)
Selected == {i \in DOMAIN last.pre.rows : MatchMask(last.pre, last.q.state)[i]}

(* a max call with `columns`, no key but columns and state, known columns *)
ValidMax ==
    /\ last.op = "max" /\ last.q.isdict
    /\ "columns" \in last.q.keys /\ last.q.keys \subseteq keywords
    /\ NamesKnownColumns

(* C6: a valid max call raises nothing and returns a mapping over the      *)
(* requested columns that gives 0 for every column in which the selected   *)
(* rows hold only missing values: so for every column when no row matches  *)
(* the state predicate or the table has no rows.                           *)
C6_MaxOfNothingIsZero ==
    ValidMax =>
        /\ last.err = "none"
        /\ DOMAIN last.maxes = Range(last.q.columns)
        /\ \A c \in Range(last.q.columns) :
              (\A i \in Selected : last.pre.rows[i][c] = NaN) => last.maxes[c] = 0

(* C7: when delete, edit or append ends with an exception, the table is    *)
(* what it was before the call.                                            *)
C7_FailedCallLeavesTable ==
    (last.op \in Mutators /\ last.err # "none") => df = last.pre

(* C8: on a table without a source location, save() without a path raises, *)
(* and so do delete, edit and append called with save=True.                *)
C8_SaveWithoutLocationFails ==
    (/\ path \notin Paths
     /\ \/ last.op = "save" /\ last.path = "None"
        \/ last.op \in Mutators /\ last.save = "True")
    => last.err # "none"

AllTables == UNION {Frames(cols, MaxRows) : cols \in ColumnLists}

(* C9: constructing a table from a path that save(p, d) wrote, with the    *)
(* same delimiter d, succeeds and yields the rows and columns saved.       *)
C9_SaveThenLoadRoundTrip ==
    (last.op = "init" /\ files[last.path].exists /\ files[last.path].sep = last.sep)
    => /\ last.err = "none"
       /\ alive
       /\ \A t \in AllTables : files[last.path] = ToCsv(t, last.sep) => df = t

(* an append whose arguments have the types the code expects *)
ValidAppend == last.op = "append" /\ WellTyped /\ "values" \in last.q.keys

RecordKeys ==
    UNION {Range(DictKeys(last.q.records[i])) : i \in DOMAIN last.q.records}

(* C10: after an append of k records a get() returns the old row count     *)
(* plus k rows; the columns are the old columns followed by the record     *)
(* keys that were no column; the old rows come first, in their order, with *)
(* their values in the old columns and nan in the new ones.                *)
C10_AppendAddsRows ==
    ValidAppend =>
        LET old == last.pre
            got == GetCall(df, NoQuery)
        IN  /\ got.err = "none"
            /\ Len(got.table.rows) = Len(old.rows) + Len(last.q.records)
            /\ got.table.columns = df.columns
            /\ SubSeq(df.columns, 1, Len(old.columns)) = old.columns
            /\ Range(df.columns) = Range(old.columns) \cup RecordKeys
            /\ IsInjective(df.columns)
            /\ \A i \in DOMAIN old.rows : \A c \in Range(df.columns) :
                  got.table.rows[i][c] =
                      IF c \in Range(old.columns) THEN old.rows[i][c] ELSE NaN

(* a row and a column before, a record with a new key appended *)
C10_Witness ==
    /\ ValidAppend
    /\ last.pre.rows # <<>>
    /\ last.q.records # <<>>
    /\ Len(df.columns) > Len(last.pre.columns)
    /\ Len(df.rows) = Len(last.pre.rows) + Len(last.q.records)

=============================================================================
